---------------------------- MODULE Spec2Model ----------------------------
(***************************************************************************)
(* A model of django-athumb: the crop-offset geometry (athumb/utils.py),   *)
(* the thumbnail field file (athumb/fields.py: generate_url, save,         *)
(* generate_thumbs, delete) and the batch regeneration command             *)
(* (athumb/management/commands/athumb_regen_field.py).                     *)
(*                                                                         *)
(* Python strings are modelled as sequences of one-character strings, so   *)
(* that rsplit, basename, strip, replace and %-formatting are computed.    *)
(***************************************************************************)
EXTENDS Integers, Sequences, FiniteSets, TLC

(***************************************************************************)
(* Bounds of the model.                                                    *)
(***************************************************************************)
\* Largest number of model instances in the dataset of a batch run.
MaxInstances == 2
\* Largest number of times the command is run in a row.
MaxRuns == 2
\* Largest slack (image dimension minus window dimension) of the geometry.
MaxSlack == 12
\* Largest percentage written in a crop token.
MaxPercent == 100
\* Largest number of generate_url calls made in a row.
MaxUrlCalls == 3
\* Largest number of save/delete calls made on the field file in a row.
MaxFileOps == 2
\* Largest side of the small images and target sizes of the geometry.
MaxDim == 6

(***************************************************************************)
(* Python string operations.                                               *)
(***************************************************************************)
\* The largest index i with s[i] = ch, 0 when there is none (str.rfind + 1).
RECURSIVE RFindFrom(_, _, _)
RFindFrom(s, ch, i) ==
    IF i = 0 THEN 0
    ELSE IF s[i] = ch THEN i
    ELSE RFindFrom(s, ch, i - 1)

RFind(s, ch) == RFindFrom(s, ch, Len(s))

\* s.rsplit(ch, 1): <<head, tail>> at the last ch, <<s>> when there is none.
RSplit1(s, ch) ==
    LET i == RFind(s, ch)
    IN  IF i = 0 THEN <<s>>
        ELSE <<SubSeq(s, 1, i - 1), SubSeq(s, i + 1, Len(s))>>

\* os.path.basename(p): what follows the last "/".
Basename(p) == SubSeq(p, RFind(p, "/") + 1, Len(p))

\* Whether pat occurs in s at index i.
MatchesAt(s, pat, i) ==
    /\ i + Len(pat) - 1 <= Len(s)
    /\ SubSeq(s, i, i + Len(pat) - 1) = pat

\* s.replace(old, new): every non-overlapping occurrence, left to right.
RECURSIVE ReplaceFrom(_, _, _, _)
ReplaceFrom(s, old, new, i) ==
    IF i > Len(s) THEN <<>>
    ELSE IF MatchesAt(s, old, i)
         THEN new \o ReplaceFrom(s, old, new, i + Len(old))
         ELSE <<s[i]>> \o ReplaceFrom(s, old, new, i + 1)

Replace(s, old, new) == ReplaceFrom(s, old, new, 1)

\* s.strip(): leading and trailing blanks removed.
RECURSIVE LStrip(_)
LStrip(s) == IF s # <<>> /\ Head(s) = " " THEN LStrip(Tail(s)) ELSE s

RECURSIVE RStrip(_)
RStrip(s) ==
    IF s # <<>> /\ s[Len(s)] = " " THEN RStrip(SubSeq(s, 1, Len(s) - 1)) ELSE s

Strip(s) == RStrip(LStrip(s))

\* str.lower() on one character, for the letters the model uses.
LowerChar(c) ==
    CASE c = "J" -> "j"
      [] c = "P" -> "p"
      [] c = "E" -> "e"
      [] c = "G" -> "g"
      [] c = "N" -> "n"
      [] OTHER -> c

Lower(s) == [i \in 1..Len(s) |-> LowerChar(s[i])]

(***************************************************************************)
(* The field's configuration (ImageWithThumbsField.__init__).              *)
(***************************************************************************)
\* The names of the files the dataset's instances may hold.  Two of them
\* share a basename in different directories.
NameAX == <<"a", "/", "x", ".", "p", "n", "g">>
NameBX == <<"b", "/", "x", ".", "p", "n", "g">>
Names == {NameAX, NameBX}

\* A FieldFile with no file: its name is empty and the object is falsy.
NoFile == <<>>

\* field.thumbs: the configured variants, in declared order.
thumbs ==
    << [name |-> <<"m">>, size |-> <<100, 100>>, crop |-> FALSE],
       [name |-> <<"s">>, size |-> <<50, 50>>, crop |-> TRUE] >>

\* field.thumbnail_format: the default of the field.
thumbnail_format == <<"J", "P", "E", "G">>

\* ImageWithThumbsFieldFile.get_thumbnail_format for a file named name and a
\* field whose format override is fmt (<<>> when there is none).
get_thumbnail_format(name, fmt) ==
    IF fmt # <<>> THEN Lower(fmt)
    ELSE LET filename_split == RSplit1(name, ".")
         IN  filename_split[Len(filename_split)]

\* ImageWithThumbsFieldFile._calc_thumb_filename, with the format given.
calc_thumb_filename_fmt(name, thumb_name, fmt) ==
    LET filename_split == RSplit1(name, ".")
        file_name == filename_split[1]
        file_extension == get_thumbnail_format(name, fmt)
    IN  file_name \o <<"_">> \o thumb_name \o <<".">> \o file_extension

\* ImageWithThumbsFieldFile._calc_thumb_filename of the configured field.
calc_thumb_filename(name, thumb_name) ==
    calc_thumb_filename_fmt(name, thumb_name, thumbnail_format)

\* Every thumbnail filename of the model's files.
ThumbFiles == {calc_thumb_filename(n, thumbs[i].name) : n \in Names, i \in 1..Len(thumbs)}


(***************************************************************************)
(* State.                                                                  *)
(***************************************************************************)
VARIABLES
    \* The storage backend: the names of the files it holds (originals and
    \* thumbnails), what the bytes of each original decode to, and the save
    \* and delete calls it refuses.
    storage, content, saveFault, deleteFault,
    \* Command: the dataset, the --force flag and the locals of
    \* regenerate_thumbs.
    instances, force_regen, counter, processed_count, skipped_no_file,
    skipped_exists, error_count, regen_tracker,
    \* Where the command is: "idle" (not started), "iterating", "done"
    \* (summary printed) or "aborted" (an exception left the loop).
    pc,
    \* The printed summary (<<>> until it is printed).
    summary,
    \* Observation of a run: the classification printed for each visited item,
    \* the collaborator calls each item made, and the finished runs.
    classes, io, log,
    \* The field file's own operations (save, delete): the calls made so far.
    ops,
    \* generate_url: the cache, the MEDIA_CACHE_BUSTER setting, and the calls.
    \* evicted: an entry has expired since the last call.
    cache, MEDIA_CACHE_BUSTER, urlcalls, evicted,
    \* get_cropping_offset: its arguments and what it returned.
    geom,
    \* A call of one of the other functions of the image pipeline (parse_crop,
    \* scale, create_and_store_thumb, _calc_thumb_filename): its arguments
    \* and what it returned.
    fcall

storageVars == <<storage, content, saveFault, deleteFault>>
commandVars == <<instances, force_regen, counter, processed_count,
                 skipped_no_file, skipped_exists, error_count, regen_tracker,
                 pc, summary, classes, io, log>>
fileVars == <<ops>>
urlVars == <<cache, MEDIA_CACHE_BUSTER, urlcalls, evicted>>
geomVars == <<geom, fcall>>
vars == <<storageVars, commandVars, fileVars, urlVars, geomVars>>

\* No refused call.
NoFault == [file |-> <<>>, kind |-> "none"]

\* The exceptions a refused storage call raises: an IOError (OSError), or an
\* exception of the backend that is no IOError.
FaultKinds == {"IOError", "StorageError"}

(***************************************************************************)
(* The thumbnail pipeline (fields.py).                                     *)
(***************************************************************************)
\* storage.save(f, ...): the exception it raises, "none" when it saves.
SaveOutcome(f) == IF saveFault.file = f THEN saveFault.kind ELSE "none"

\* The loop of generate_thumbs from variant i on, done being the filenames
\* saved so far: create_and_store_thumb per variant, in declared order; an
\* exception leaves the loop.
RECURSIVE StoreFrom(_, _, _)
StoreFrom(name, i, done) ==
    IF i > Len(thumbs) THEN [exc |-> "none", saves |-> done, attempted |-> i - 1]
    ELSE LET f == calc_thumb_filename(name, thumbs[i].name)
             e == SaveOutcome(f)
         IN  IF e # "none"
             THEN [exc |-> e, saves |-> done, attempted |-> i]
             ELSE StoreFrom(name, i + 1, Append(done, f))

\* ImageWithThumbsFieldFile.generate_thumbs on the file named name whose
\* bytes are bytes ("image" or "garbage"): Image.open raises an IOError
\* (PIL's UnidentifiedImageError) on garbage, before the loop.
generate_thumbs(name, bytes) ==
    IF bytes # "image"
    THEN [exc |-> "IOError", saves |-> <<>>, attempted |-> 0]
    ELSE StoreFrom(name, 1, <<>>)

\* The set of the elements of a sequence.
Range(s) == {s[i] : i \in 1..Len(s)}

(***************************************************************************)
(* The batch regeneration command (athumb_regen_field.py).                 *)
(***************************************************************************)
\* The file of the instance the loop is at.
CurFile == instances[counter].file

\* A wrong get_missing_thumbnails: the existence test is inverted.
get_missing_thumbnails_inverted(file) ==
    LET missing(i) == calc_thumb_filename(file, thumbs[i].name) \in storage
        idx == SelectSeq([i \in 1..Len(thumbs) |-> i], missing)
    IN  [k \in 1..Len(idx) |-> thumbs[idx[k]].name]

\* Command.get_missing_thumbnails: the names of the variants of file whose
\* filename storage.exists denies, in declared order.
get_missing_thumbnails(file) ==
    LET missing(i) == calc_thumb_filename(file, thumbs[i].name) \notin storage
        idx == SelectSeq([i \in 1..Len(thumbs) |-> i], missing)
    IN  [k \in 1..Len(idx) |-> thumbs[idx[k]].name]

\* A wrong needs_regeneration: the --force flag is ignored.
needs_regeneration_noforce(file) == Len(get_missing_thumbnails(file)) > 0

\* Command.needs_regeneration.
needs_regeneration(file) ==
    IF force_regen THEN TRUE
    ELSE Len(get_missing_thumbnails(file)) > 0

\* The storage.exists calls of one get_missing_thumbnails(file).
ExistsCalls(file) ==
    [i \in 1..Len(thumbs) |->
        [item |-> counter, op |-> "exists",
         file |-> calc_thumb_filename(file, thumbs[i].name),
         existed |-> calc_thumb_filename(file, thumbs[i].name) \in storage]]

\* The storage.exists calls of lines 135-136: needs_regeneration checks
\* unless forced, and the branch it denies checks again.
CheckCalls(file) ==
    IF force_regen THEN <<>>
    ELSE IF needs_regeneration(file) THEN ExistsCalls(file)
    ELSE ExistsCalls(file) \o ExistsCalls(file)

\* The storage.save calls of a generate_thumbs result.
SaveCalls(r) ==
    [i \in 1..Len(r.saves) |->
        [item |-> counter, op |-> "save", file |-> r.saves[i],
         existed |-> r.saves[i] \in storage]]

\* file.read() (line 159): an IOError when storage does not hold the file.
ReadFails(file) == file \notin storage

\* A wrong handler: no exception of the pipeline is caught.
CaughtNothing(exc) == FALSE

\* The handler of line 189, except IOError.
CaughtAsCorrupt(exc) == exc = "IOError"

\* The loop is at an item.
AtItem == pc = "iterating" /\ counter <= Len(instances)

\* A wrong test of the ledger: it is never consulted.
FreshNoLedger == AtItem /\ CurFile # NoFile

\* The item has a file that this run has not marked in the ledger.
Fresh == AtItem /\ CurFile # NoFile /\ Basename(CurFile) \notin regen_tracker

\* The item reaches the read of line 159.
NeedsWork ==
    /\ Fresh
    /\ \/ needs_regeneration(CurFile)
       \/ Len(get_missing_thumbnails(CurFile)) > 0

\* An iteration that prints class c and makes the calls in calls.
Visit(c, calls) ==
    /\ classes' = Append(classes, c)
    /\ io' = io \o calls
    /\ counter' = counter + 1
    /\ UNCHANGED <<instances, force_regen, pc, summary, log>>

\* Lines 115-122: the instance has no file.
SkipNoFile ==
    /\ AtItem
    /\ CurFile = NoFile
    /\ skipped_no_file' = skipped_no_file + 1
    /\ Visit("SKIPPED_NO_FILE", <<>>)
    /\ UNCHANGED <<processed_count, skipped_exists, error_count, regen_tracker>>
    /\ UNCHANGED <<storageVars, fileVars, urlVars, geomVars>>

\* A wrong ledger branch: the skipped item is counted nowhere.
SkipAlreadyProcessedUncounted ==
    /\ AtItem
    /\ CurFile # NoFile
    /\ Basename(CurFile) \in regen_tracker
    /\ Visit("SKIPPED_ALREADY_PROCESSED", <<>>)
    /\ UNCHANGED <<processed_count, skipped_no_file, skipped_exists, error_count,
                   regen_tracker>>
    /\ UNCHANGED <<storageVars, fileVars, urlVars, geomVars>>

\* Lines 124-133: the basename is in the ledger.
SkipAlreadyProcessed ==
    /\ AtItem
    /\ CurFile # NoFile
    /\ Basename(CurFile) \in regen_tracker
    /\ skipped_exists' = skipped_exists + 1
    /\ Visit("SKIPPED_ALREADY_PROCESSED", <<>>)
    /\ UNCHANGED <<processed_count, skipped_no_file, error_count, regen_tracker>>
    /\ UNCHANGED <<storageVars, fileVars, urlVars, geomVars>>

\* Lines 135-145: nothing is missing and the run is not forced.
SkipAllExist ==
    /\ Fresh
    /\ ~needs_regeneration(CurFile)
    /\ Len(get_missing_thumbnails(CurFile)) = 0
    /\ skipped_exists' = skipped_exists + 1
    /\ regen_tracker' = regen_tracker \cup {Basename(CurFile)}
    /\ Visit("SKIPPED_EXISTS", CheckCalls(CurFile))
    /\ UNCHANGED <<processed_count, skipped_no_file, error_count>>
    /\ UNCHANGED <<storageVars, fileVars, urlVars, geomVars>>

\* Lines 158-170: reading the original raises an IOError.
ErrorMissingSource ==
    /\ NeedsWork
    /\ ReadFails(CurFile)
    /\ error_count' = error_count + 1
    /\ Visit("ERROR_MISSING_SOURCE",
             CheckCalls(CurFile)
                \o <<[item |-> counter, op |-> "read", file |-> CurFile,
                      existed |-> FALSE]>>)
    /\ UNCHANGED <<processed_count, skipped_no_file, skipped_exists, regen_tracker>>
    /\ UNCHANGED <<storageVars, fileVars, urlVars, geomVars>>

\* The calls of an item that reaches the pipeline, r being its result.
WorkCalls(r) ==
    CheckCalls(CurFile)
        \o <<[item |-> counter, op |-> "read", file |-> CurFile, existed |-> TRUE],
             [item |-> counter, op |-> "generate_thumbs", file |-> CurFile,
              existed |-> TRUE]>>
        \o SaveCalls(r)

\* Lines 186-199: the pipeline returns; the item is counted and marked.
Processed ==
    /\ NeedsWork
    /\ ~ReadFails(CurFile)
    /\ LET r == generate_thumbs(CurFile, content[CurFile])
       IN  /\ r.exc = "none"
           /\ storage' = storage \cup Range(r.saves)
           /\ processed_count' = processed_count + 1
           /\ regen_tracker' = regen_tracker \cup {Basename(CurFile)}
           /\ Visit("PROCESSED", WorkCalls(r))
    /\ UNCHANGED <<skipped_no_file, skipped_exists, error_count>>
    /\ UNCHANGED <<content, saveFault, deleteFault, fileVars, urlVars, geomVars>>

\* Lines 189-196: the pipeline raises an IOError; the item is an error.
ErrorCorruptImage ==
    /\ NeedsWork
    /\ ~ReadFails(CurFile)
    /\ LET r == generate_thumbs(CurFile, content[CurFile])
       IN  /\ r.exc # "none"
           /\ CaughtAsCorrupt(r.exc)
           /\ storage' = storage \cup Range(r.saves)
           /\ error_count' = error_count + 1
           /\ Visit("ERROR_CORRUPT_IMAGE", WorkCalls(r))
    /\ UNCHANGED <<processed_count, skipped_no_file, skipped_exists, regen_tracker>>
    /\ UNCHANGED <<content, saveFault, deleteFault, fileVars, urlVars, geomVars>>

\* The record of the run as it stands.
ThisRun(end) == [force |-> force_regen, classes |-> classes, end |-> end]

\* Line 187 with no handler that fits: the exception leaves regenerate_thumbs
\* and the command; no summary is printed.
Propagate ==
    /\ NeedsWork
    /\ ~ReadFails(CurFile)
    /\ LET r == generate_thumbs(CurFile, content[CurFile])
       IN  /\ r.exc # "none"
           /\ ~CaughtAsCorrupt(r.exc)
           /\ storage' = storage \cup Range(r.saves)
           /\ io' = io \o WorkCalls(r)
    /\ pc' = "aborted"
    /\ log' = Append(log, ThisRun("aborted"))
    /\ UNCHANGED <<instances, force_regen, counter, processed_count,
                   skipped_no_file, skipped_exists, error_count, regen_tracker,
                   summary, classes>>
    /\ UNCHANGED <<content, saveFault, deleteFault, fileVars, urlVars, geomVars>>

\* Lines 201-211: the loop is over; the summary is printed.
EmitSummary ==
    /\ pc = "iterating"
    /\ counter > Len(instances)
    /\ pc' = "done"
    /\ summary' = [total |-> Len(instances), processed |-> processed_count,
                   no_file |-> skipped_no_file, exists |-> skipped_exists,
                   errors |-> error_count, force |-> force_regen]
    /\ log' = Append(log, ThisRun("done"))
    /\ UNCHANGED <<instances, force_regen, counter, processed_count,
                   skipped_no_file, skipped_exists, error_count, regen_tracker,
                   classes, io>>
    /\ UNCHANGED <<storageVars, fileVars, urlVars, geomVars>>

\* Command.handle (lines 24-31) and lines 99-112: the command is run again
\* on the same dataset and storage, with or without --force.
Handle ==
    /\ pc \in {"done", "aborted"}
    /\ Len(log) < MaxRuns
    /\ \E f \in BOOLEAN : force_regen' = f
    /\ counter' = 1
    /\ processed_count' = 0
    /\ skipped_no_file' = 0
    /\ skipped_exists' = 0
    /\ error_count' = 0
    /\ regen_tracker' = {}
    /\ pc' = "iterating"
    /\ summary' = <<>>
    /\ classes' = <<>>
    /\ io' = <<>>
    /\ UNCHANGED <<instances, log>>
    /\ UNCHANGED <<storageVars, fileVars, urlVars, geomVars>>

NextCommand ==
    \/ SkipNoFile
    \/ SkipAlreadyProcessed
    \/ SkipAllExist
    \/ ErrorMissingSource
    \/ Processed
    \/ ErrorCorruptImage
    \/ Propagate
    \/ EmitSummary
    \/ Handle

\* The variables of the other parts, at rest.
FileIdle == ops = <<>>
UrlIdle ==
    cache = {} /\ MEDIA_CACHE_BUSTER = <<>> /\ urlcalls = <<>> /\ evicted = FALSE
GeomIdle == geom = <<>> /\ fcall = <<>>
CommandIdle ==
    /\ instances = <<>>
    /\ force_regen = FALSE
    /\ counter = 1
    /\ processed_count = 0
    /\ skipped_no_file = 0
    /\ skipped_exists = 0
    /\ error_count = 0
    /\ regen_tracker = {}
    /\ pc = "idle"
    /\ summary = <<>>
    /\ classes = <<>>
    /\ io = <<>>
    /\ log = <<>>

\* The datasets: up to MaxInstances instances, each with a file or none.
Datasets ==
    UNION {[1..n -> Names \cup {NoFile}] : n \in 1..MaxInstances}

\* The thumbnail filenames of one original.
ThumbFilesOf(n) == {calc_thumb_filename(n, thumbs[i].name) : i \in 1..Len(thumbs)}

\* The states of the storage backend: any set of files, and at most one
\* fault: one original whose bytes are no image, or one refused save.  The
\* two names differ in their directory only and the datasets hold them in
\* every order, so the fault is placed on the first; a refused save of its
\* thumbnails is reached only when that original can be read and decoded.
InitStorage ==
    /\ storage \in SUBSET (Names \cup ThumbFiles)
    /\ content \in [Names -> {"image", "garbage"}]
    /\ \A n \in Names : content[n] = "garbage" => n = NameAX /\ n \in storage
    /\ saveFault \in {NoFault} \cup [file : ThumbFilesOf(NameAX), kind : FaultKinds]
    /\ saveFault # NoFault => NameAX \in storage /\ content[NameAX] = "image"

\* The command starts on a dataset: the state at line 112.
InitCommand ==
    /\ InitStorage
    /\ deleteFault = NoFault
    /\ \E d \in Datasets : instances = [i \in DOMAIN d |-> [id |-> i, file |-> d[i]]]
    /\ force_regen \in BOOLEAN
    /\ counter = 1
    /\ processed_count = 0
    /\ skipped_no_file = 0
    /\ skipped_exists = 0
    /\ error_count = 0
    /\ regen_tracker = {}
    /\ pc = "iterating"
    /\ summary = <<>>
    /\ classes = <<>>
    /\ io = <<>>
    /\ log = <<>>
    /\ FileIdle /\ UrlIdle /\ GeomIdle

SpecCommand == InitCommand /\ [][NextCommand]_vars

\* The loop and the interpreter run on: each enabled step is taken.
FairCommand == SpecCommand /\ WF_vars(NextCommand)


(***************************************************************************)
(* The field file's operations (fields.py): save, generate_thumbs, delete. *)
(***************************************************************************)
\* The handler of save (lines 101-110) for an exception exc of
\* generate_thumbs: an IOError enters the handler, whose test reads
\* exc.message; exceptions have no such attribute in Python 3 (the module
\* is Python 3: f-string at line 152), so the test raises AttributeError.
\* Any other exception passes through.
save_handler(exc) ==
    IF exc = "IOError" THEN "AttributeError" ELSE exc

\* The storage writes of save(name, content), in the order they are made:
\* the original by FieldFile.save (line 100), then the thumbnails that
\* generate_thumbs stored (line 102).
SaveWrites(name, bytes) == <<name>> \o generate_thumbs(name, bytes).saves

\* A wrong save: when generate_thumbs raises, what the call wrote is
\* removed again.
Save_rollback(name, bytes) ==
    LET r == generate_thumbs(name, bytes)
    IN  /\ storage' = IF r.exc = "none"
                      THEN storage \cup Range(SaveWrites(name, bytes))
                      ELSE storage \ Range(SaveWrites(name, bytes))
        /\ content' = [content EXCEPT ![name] = bytes]
        /\ ops' = Append(ops, [op |-> "save", name |-> name, bytes |-> bytes,
                               raised |-> r.exc, exc |-> save_handler(r.exc),
                               saves |-> r.saves, attempted |-> r.attempted,
                               deletes |-> <<>>,
                               writes |-> SaveWrites(name, bytes)])
        /\ UNCHANGED <<saveFault, deleteFault>>

\* ImageWithThumbsFieldFile.save(name, content): the original is stored
\* first (line 100), then the thumbnails are generated.
Save(name, bytes) ==
    LET r == generate_thumbs(name, bytes)
    IN  /\ storage' = storage \cup Range(SaveWrites(name, bytes))
        /\ content' = [content EXCEPT ![name] = bytes]
        /\ ops' = Append(ops, [op |-> "save", name |-> name, bytes |-> bytes,
                               raised |-> r.exc, exc |-> save_handler(r.exc),
                               saves |-> r.saves, attempted |-> r.attempted,
                               deletes |-> <<>>,
                               writes |-> SaveWrites(name, bytes)])
        /\ UNCHANGED <<saveFault, deleteFault>>

\* ImageWithThumbsFieldFile.generate_thumbs(name, content), called on its
\* own as the command does.
GenerateThumbs(name, bytes) ==
    LET r == generate_thumbs(name, bytes)
    IN  /\ storage' = storage \cup Range(r.saves)
        /\ ops' = Append(ops, [op |-> "generate_thumbs", name |-> name,
                               bytes |-> bytes, raised |-> r.exc, exc |-> r.exc,
                               saves |-> r.saves, attempted |-> r.attempted,
                               deletes |-> <<>>, writes |-> r.saves])
        /\ UNCHANGED <<content, saveFault, deleteFault>>

\* storage.delete(f): the exception it raises, "none" when it deletes.
DeleteOutcome(f) == IF deleteFault.file = f THEN deleteFault.kind ELSE "none"

\* The loop of delete (lines 186-189) from variant i on, asked being the
\* filenames whose deletion was requested so far; an exception leaves it.
RECURSIVE DeleteFrom(_, _, _)
DeleteFrom(name, i, asked) ==
    IF i > Len(thumbs) THEN [exc |-> "none", asked |-> asked]
    ELSE LET f == calc_thumb_filename(name, thumbs[i].name)
             e == DeleteOutcome(f)
         IN  IF e # "none"
             THEN [exc |-> e, asked |-> Append(asked, f)]
             ELSE DeleteFrom(name, i + 1, Append(asked, f))

\* The files a delete result removed: those asked for, but the refused one.
Removed(d) ==
    {d.asked[k] : k \in {j \in 1..Len(d.asked) : DeleteOutcome(d.asked[j]) = "none"}}

\* ImageWithThumbsFieldFile.delete: the thumbnails, then the original
\* (line 191), which an exception of the loop never reaches.
Delete(name) ==
    LET d == DeleteFrom(name, 1, <<>>)
        asked == IF d.exc = "none" THEN Append(d.asked, name) ELSE d.asked
    IN  /\ storage' = storage \ (Removed(d) \cup (IF d.exc = "none" THEN {name} ELSE {}))
        /\ ops' = Append(ops, [op |-> "delete", name |-> name, bytes |-> "none",
                               raised |-> d.exc, exc |-> d.exc,
                               saves |-> <<>>, attempted |-> 0,
                               deletes |-> asked, writes |-> <<>>])
        /\ UNCHANGED <<content, saveFault, deleteFault>>

\* What the bytes handed to save or generate_thumbs may be.
Bytes == {"image", "garbage"}

CallSave ==
    /\ Len(ops) < MaxFileOps
    /\ \E name \in Names, bytes \in Bytes : Save(name, bytes)
    /\ UNCHANGED <<commandVars, urlVars, geomVars>>

CallGenerateThumbs ==
    /\ Len(ops) < MaxFileOps
    /\ \E name \in Names, bytes \in Bytes : GenerateThumbs(name, bytes)
    /\ UNCHANGED <<commandVars, urlVars, geomVars>>

CallDelete ==
    /\ Len(ops) < MaxFileOps
    /\ \E name \in Names : Delete(name)
    /\ UNCHANGED <<commandVars, urlVars, geomVars>>

NextFile ==
    \/ CallSave
    \/ CallGenerateThumbs
    \/ CallDelete

\* The field file's operations start on an empty or a full storage, with at
\* most one refused save and one refused delete.
InitFile ==
    /\ storage \in {{}, Names \cup ThumbFiles}
    /\ content = [n \in Names |-> "image"]
    /\ saveFault \in {NoFault} \cup [file : ThumbFilesOf(NameAX), kind : FaultKinds]
    /\ deleteFault \in {NoFault} \cup [file : ThumbFilesOf(NameAX), kind : FaultKinds]
    /\ ops = <<>>
    /\ CommandIdle /\ UrlIdle /\ GeomIdle

SpecFile == InitFile /\ [][NextFile]_vars

(***************************************************************************)
(* generate_url and the URL cache (fields.py lines 34-79).                 *)
(***************************************************************************)
\* The literals of generate_url.
StrThumbcache == <<"T", "h", "u", "m", "b", "c", "a", "c", "h", "e", "_">>
StrSsl == <<"_", "s", "s", "l">>
StrCbust == <<"?", "c", "b", "u", "s", "t", "=">>
StrHttp == <<"h", "t", "t", "p", ":", "/", "/">>
StrHttps == <<"h", "t", "t", "p", "s", ":", "/", "/">>

\* self.url, which is storage.url(self.name): the backend's URL of the file,
\* here a host and the name followed by GET attributes.
StorageUrl(name) ==
    StrHttp \o <<"h", "/">> \o name \o <<"?", "k", "=", "1">>

\* The values of the MEDIA_CACHE_BUSTER setting (line 23): unset, or a token.
CacheBusters == {<<>>, <<"v", "2">>}

\* The thumb names generate_url is called with: those of the field's
\* variants, and one that ends as the SSL postfix does (thumb_name is any
\* string; nothing checks it against the field).
UrlThumbNames == {thumbs[i].name : i \in 1..Len(thumbs)} \cup {<<"m", "_", "s", "s", "l">>}

\* Lines 39 and 47-48: the cache key.
CacheKey(name, thumb_name, ssl_mode) ==
    LET ssl_postfix == IF ssl_mode THEN StrSsl ELSE <<>>
    IN  Strip(StrThumbcache \o StorageUrl(name) \o <<"_">> \o thumb_name
                \o ssl_postfix)

\* Lines 54-73: the URL computed from the original's URL.
ComputeUrl(name, thumb_name, ssl_mode, cache_bust) ==
    LET new_filename == calc_thumb_filename(name, thumb_name)
        url_get_split == RSplit1(StorageUrl(name), "?")
        url_str == url_get_split[1]
        url_minus_filename == RSplit1(url_str, "/")[1]
        new_url == url_minus_filename \o <<"/">> \o Basename(new_filename)
        busted == IF cache_bust /\ MEDIA_CACHE_BUSTER # <<>>
                  THEN new_url \o StrCbust \o MEDIA_CACHE_BUSTER
                  ELSE new_url
    IN  IF ssl_mode THEN Replace(busted, StrHttp, StrHttps) ELSE busted

\* cache.get(key): the entries under key (at most one).
CacheGet(key) == {e \in cache : e.key = key}

\* cache.set(key, val, ttl).
CacheSet(key, val) == {e \in cache : e.key # key} \cup {[key |-> key, val |-> val]}

\* generate_url(thumb_name, ssl_mode, check_cache, cache_bust) on the file
\* named name.  resolver counts the evaluations of self.url, each a call
\* of storage.url: one for the cache key (line 47), one for the URL that is
\* computed on a miss (line 59).
GenerateUrl(name, thumb_name, ssl_mode, check_cache, cache_bust) ==
    LET key == CacheKey(name, thumb_name, ssl_mode)
        hit == check_cache /\ CacheGet(key) # {}
        new_url == ComputeUrl(name, thumb_name, ssl_mode, cache_bust)
        ret == IF hit THEN (CHOOSE e \in CacheGet(key) : TRUE).val ELSE new_url
        resolver == (IF check_cache THEN 1 ELSE 0) + (IF hit THEN 0 ELSE 1)
    IN  /\ cache' = IF check_cache /\ ~hit THEN CacheSet(key, new_url) ELSE cache
        /\ urlcalls' = Append(urlcalls,
              [name |-> name, thumb_name |-> thumb_name, ssl_mode |-> ssl_mode,
               check_cache |-> check_cache, cache_bust |-> cache_bust,
               hit |-> hit, ret |-> ret, resolver |-> resolver,
               evicted |-> evicted])
        /\ evicted' = FALSE

CallGenerateUrl ==
    /\ Len(urlcalls) < MaxUrlCalls
    /\ \E thumb_name \in UrlThumbNames, ssl_mode, check_cache, cache_bust \in BOOLEAN :
          GenerateUrl(NameAX, thumb_name, ssl_mode, check_cache, cache_bust)
    /\ UNCHANGED <<MEDIA_CACHE_BUSTER, storageVars, commandVars, fileVars, geomVars>>

\* The cache backend drops an entry whose THUMBNAIL_URL_CACHE_TIME is over.
Expire ==
    /\ Len(urlcalls) < MaxUrlCalls
    /\ \E e \in cache : cache' = cache \ {e}
    /\ evicted' = TRUE
    /\ UNCHANGED <<MEDIA_CACHE_BUSTER, urlcalls, storageVars, commandVars,
                   fileVars, geomVars>>

NextUrl ==
    \/ CallGenerateUrl
    \/ Expire

InitUrl ==
    /\ cache = {}
    /\ MEDIA_CACHE_BUSTER \in CacheBusters
    /\ urlcalls = <<>>
    /\ evicted = FALSE
    /\ storage = Names \cup ThumbFiles
    /\ content = [n \in Names |-> "image"]
    /\ saveFault = NoFault
    /\ deleteFault = NoFault
    /\ CommandIdle /\ FileIdle /\ GeomIdle

SpecUrl == InitUrl /\ [][NextUrl]_vars

(***************************************************************************)
(* The crop-offset geometry (utils.py).                                    *)
(***************************************************************************)
DigitChars == <<"0", "1", "2", "3", "4", "5", "6", "7", "8", "9">>

IsDigit(c) == \E d \in 1..Len(DigitChars) : DigitChars[d] = c

DigitValue(c) == (CHOOSE d \in 1..Len(DigitChars) : DigitChars[d] = c) - 1

\* The decimal numeral of a natural number, as "%d" writes it.
RECURSIVE Numeral(_)
Numeral(n) ==
    IF n < 10 THEN <<DigitChars[n + 1]>>
    ELSE Numeral(n \div 10) \o <<DigitChars[(n % 10) + 1]>>

\* int(s) of a string of digits.
RECURSIVE ParseInt(_)
ParseInt(s) ==
    IF s = <<>> THEN 0
    ELSE 10 * ParseInt(SubSeq(s, 1, Len(s) - 1)) + DigitValue(s[Len(s)])

\* The length of the longest prefix of s made of digits.
RECURSIVE DigitPrefix(_)
DigitPrefix(s) ==
    IF s # <<>> /\ IsDigit(Head(s)) THEN 1 + DigitPrefix(Tail(s)) ELSE 0

\* _CROP_PERCENT_PATTERN.match (line 11): ^(?P<value>\d+)(?P<unit>%|px)$.
CropPercentMatch(s) ==
    LET n == DigitPrefix(s)
        unit == SubSeq(s, n + 1, Len(s))
    IN  [ok |-> n >= 1 /\ unit \in {<<"%">>, <<"p", "x">>},
         value |-> SubSeq(s, 1, n),
         unit |-> unit]

Max(a, b) == IF a >= b THEN a ELSE b
Min(a, b) == IF a <= b THEN a ELSE b

\* A wrong get_cropping_offset: the percentage is not divided by 100.
get_cropping_offset_noscale(crop_option, epsilon) ==
    LET m == CropPercentMatch(crop_option)
        value == ParseInt(m.value)
        hundredths == epsilon * value * 100
    IN  IF ~m.ok THEN [exc |-> "ThumbnailParseError", ret |-> 0]
        ELSE [exc |-> "none",
              ret |-> Max(0, Min(hundredths, epsilon * 100)) \div 100]

\* A wrong get_cropping_offset: the value is not limited to epsilon.
get_cropping_offset_nomin(crop_option, epsilon) ==
    LET m == CropPercentMatch(crop_option)
        value == ParseInt(m.value)
        hundredths == IF m.unit = <<"%">> THEN epsilon * value ELSE value * 100
    IN  IF ~m.ok THEN [exc |-> "ThumbnailParseError", ret |-> 0]
        ELSE [exc |-> "none", ret |-> Max(0, hundredths) \div 100]

\* get_cropping_offset(crop_option, epsilon), lines 40-48.  The value is
\* kept in hundredths: epsilon * value / 100.0 for a percentage, the value
\* itself for pixels.  int() truncates the clamped value, which is not
\* negative.  (The float quotient of two integers of this size lies within
\* rounding error of the exact one, which is an integer or at least 0.01
\* away from one, so the truncation is that of the exact quotient.)
get_cropping_offset(crop_option, epsilon) ==
    LET m == CropPercentMatch(crop_option)
        value == ParseInt(m.value)
        hundredths == IF m.unit = <<"%">> THEN epsilon * value ELSE value * 100
    IN  IF ~m.ok THEN [exc |-> "ThumbnailParseError", ret |-> 0]
        ELSE [exc |-> "none",
              ret |-> Max(0, Min(hundredths, epsilon * 100)) \div 100]

\* The tokens get_cropping_offset is called with: p being the percentage a
\* token was written from (-1 for a token that is no percentage).
CropTokens ==
    {[p |-> p, token |-> Numeral(p) \o <<"%">>] : p \in 0..MaxPercent}
        \cup {[p |-> -1, token |-> Numeral(v) \o <<"p", "x">>] : v \in 0..(MaxSlack + 2)}
        \cup {[p |-> -1, token |-> t] :
                t \in {<<"c", "e", "n", "t", "e", "r">>, <<"5">>, <<"%">>, <<>>}}

\* The call returns or raises.
CallCroppingOffset ==
    /\ ~geom.done
    /\ LET r == get_cropping_offset(geom.crop_option, geom.epsilon)
       IN  geom' = [geom EXCEPT !.done = TRUE, !.exc = r.exc, !.ret = r.ret]
    /\ UNCHANGED <<fcall, storageVars, commandVars, fileVars, urlVars>>

NextGeom == CallCroppingOffset

InitGeom ==
    /\ \E t \in CropTokens, e \in (-MaxSlack)..MaxSlack :
          geom = [p |-> t.p, crop_option |-> t.token, epsilon |-> e,
                  done |-> FALSE, exc |-> "none", ret |-> 0]
    /\ fcall = <<>>
    /\ storage = {}
    /\ content = [n \in Names |-> "image"]
    /\ saveFault = NoFault
    /\ deleteFault = NoFault
    /\ CommandIdle /\ FileIdle /\ UrlIdle

SpecGeom == InitGeom /\ [][NextGeom]_vars

(***************************************************************************)
(* Cropping and scaling (utils.py) and the geometry of one variant         *)
(* (fields.py, create_and_store_thumb and _create_thumbnail).              *)
(***************************************************************************)
\* The index of the first ch in s, 0 when there is none (str.find + 1).
Find(s, ch) ==
    IF \E i \in 1..Len(s) : s[i] = ch
    THEN CHOOSE i \in 1..Len(s) : s[i] = ch /\ \A j \in 1..(i - 1) : s[j] # ch
    ELSE 0

\* s.split(ch): the pieces between the occurrences of ch, empty ones kept.
RECURSIVE Split(_, _)
Split(s, ch) ==
    LET i == Find(s, ch)
    IN  IF i = 0 THEN <<s>>
        ELSE <<SubSeq(s, 1, i - 1)>> \o Split(SubSeq(s, i + 1, Len(s)), ch)

StrLeft == <<"l", "e", "f", "t">>
StrCenter == <<"c", "e", "n", "t", "e", "r">>
StrRight == <<"r", "i", "g", "h", "t">>
StrTop == <<"t", "o", "p">>
StrBottom == <<"b", "o", "t", "t", "o", "m">>

\* _X_ALIAS_PERCENT and _Y_ALIAS_PERCENT (lines 15-24).
X_ALIAS_PERCENT ==
    (StrLeft :> <<"0", "%">>) @@ (StrCenter :> <<"5", "0", "%">>) @@ (StrRight :> <<"1", "0", "0", "%">>)
Y_ALIAS_PERCENT ==
    (StrTop :> <<"0", "%">>) @@ (StrCenter :> <<"5", "0", "%">>) @@ (StrBottom :> <<"1", "0", "0", "%">>)

\* dict.get(key, default).
DictGet(d, key, default) == IF key \in DOMAIN d THEN d[key] ELSE default

\* The result of a function that raised exc.
Raised(exc) == [exc |-> exc, ret |-> <<0, 0>>]

\* A wrong parse_crop: a single Y alias is applied on the X axis.
parse_crop_y_on_x(crop_option, xy_image, xy_window) ==
    LET xy_crop == Split(crop_option, " ")
        single == Len(xy_crop) = 1
        x_crop ==
            IF single
            THEN IF crop_option \in DOMAIN X_ALIAS_PERCENT
                 THEN X_ALIAS_PERCENT[crop_option]
                 ELSE IF crop_option \in DOMAIN Y_ALIAS_PERCENT
                      THEN Y_ALIAS_PERCENT[crop_option]
                      ELSE crop_option
            ELSE DictGet(X_ALIAS_PERCENT, xy_crop[1], xy_crop[1])
        y_crop ==
            IF single
            THEN IF crop_option \in DOMAIN X_ALIAS_PERCENT \cup DOMAIN Y_ALIAS_PERCENT
                 THEN <<"5", "0", "%">>
                 ELSE crop_option
            ELSE DictGet(Y_ALIAS_PERCENT, xy_crop[2], xy_crop[2])
        offset_x == get_cropping_offset(x_crop, xy_image[1] - xy_window[1])
        offset_y == get_cropping_offset(y_crop, xy_image[2] - xy_window[2])
    IN  IF Len(xy_crop) > 2 THEN Raised("ThumbnailParseError")
        ELSE IF offset_x.exc # "none" THEN Raised(offset_x.exc)
        ELSE IF offset_y.exc # "none" THEN Raised(offset_y.exc)
        ELSE [exc |-> "none", ret |-> <<offset_x.ret, offset_y.ret>>]

\* parse_crop(crop_option, xy_image, xy_window), lines 51-93: the tokens of
\* each axis, then get_cropping_offset of each in the axis's slack.
parse_crop(crop_option, xy_image, xy_window) ==
    LET xy_crop == Split(crop_option, " ")
        single == Len(xy_crop) = 1
        x_crop ==
            IF single
            THEN IF crop_option \in DOMAIN X_ALIAS_PERCENT
                 THEN X_ALIAS_PERCENT[crop_option]
                 ELSE IF crop_option \in DOMAIN Y_ALIAS_PERCENT
                      THEN <<"5", "0", "%">>
                      ELSE crop_option
            ELSE DictGet(X_ALIAS_PERCENT, xy_crop[1], xy_crop[1])
        y_crop ==
            IF single
            THEN IF crop_option \in DOMAIN X_ALIAS_PERCENT
                 THEN <<"5", "0", "%">>
                 ELSE IF crop_option \in DOMAIN Y_ALIAS_PERCENT
                      THEN Y_ALIAS_PERCENT[crop_option]
                      ELSE crop_option
            ELSE DictGet(Y_ALIAS_PERCENT, xy_crop[2], xy_crop[2])
        offset_x == get_cropping_offset(x_crop, xy_image[1] - xy_window[1])
        offset_y == get_cropping_offset(y_crop, xy_image[2] - xy_window[2])
    IN  IF Len(xy_crop) > 2 THEN Raised("ThumbnailParseError")
        ELSE IF offset_x.exc # "none" THEN Raised(offset_x.exc)
        ELSE IF offset_y.exc # "none" THEN Raised(offset_y.exc)
        ELSE [exc |-> "none", ret |-> <<offset_x.ret, offset_y.ret>>]

\* round_to_int (lines 96-99) of the float n / d >= 0: Python 3's round,
\* which takes a value halfway between two integers to the even one.
round_to_int(n, d) ==
    LET q == n \div d
        r == n % d
    IN  IF 2 * r < d THEN q
        ELSE IF 2 * r > d THEN q + 1
        ELSE IF q % 2 = 0 THEN q ELSE q + 1

\* A wrong scale: the larger factor is used whether cropping or not.
scale_cover(size, target_size, crop_option, upscale) ==
    LET x_image == size[1]
        y_image == size[2]
        use_x == target_size[1] * y_image >= target_size[2] * x_image
        num == IF use_x THEN target_size[1] ELSE target_size[2]
        den == IF use_x THEN x_image ELSE y_image
    IN  IF num < den \/ upscale
        THEN <<round_to_int(x_image * num, den), round_to_int(y_image * num, den)>>
        ELSE size

\* scale(image, target_size, crop_option, upscale), lines 122-130, on the
\* image's size; crop_option is <<>> for None.  The factor target / image
\* of the chosen axis is kept as the fraction num / den.  (On the model's
\* sizes the double product x_image * factor rounds as the exact one.)
scale(size, target_size, crop_option, upscale) ==
    LET x_image == size[1]
        y_image == size[2]
        \* factors[0] >= factors[1], cross-multiplied
        x_larger == target_size[1] * y_image >= target_size[2] * x_image
        x_smaller == target_size[1] * y_image =< target_size[2] * x_image
        use_x == IF crop_option # <<>> THEN x_larger ELSE x_smaller
        num == IF use_x THEN target_size[1] ELSE target_size[2]
        den == IF use_x THEN x_image ELSE y_image
    IN  IF num < den \/ upscale
        THEN <<round_to_int(x_image * num, den), round_to_int(y_image * num, den)>>
        ELSE size

\* The box handed to image.crop (line 119).
crop_box(offsets, target_size) ==
    <<offsets[1], offsets[2], target_size[1] + offsets[1], target_size[2] + offsets[2]>>

\* The size of the image that Image.crop(box) returns: that of the box,
\* whatever part of it lies outside the image.
BoxSize(box) == <<box[3] - box[1], box[4] - box[2]>>

\* crop(image, target_size, crop_option), lines 114-119, on the image's size.
crop(size, target_size, crop_option) ==
    LET offsets == parse_crop(crop_option, size, target_size)
    IN  IF offsets.exc # "none"
        THEN [exc |-> offsets.exc, box |-> <<0, 0, 0, 0>>, size |-> size]
        ELSE [exc |-> "none",
              box |-> crop_box(offsets.ret, target_size),
              size |-> BoxSize(crop_box(offsets.ret, target_size))]

\* _create_thumbnail (lines 171-179) on the image's size: scaled, then
\* cropped when there is a crop_option.  Image.resize refuses a size with a
\* zero side (ValueError).
create_thumbnail(size, target_size, crop_option, upscale) ==
    LET scaled == scale(size, target_size, crop_option, upscale)
        cropped == crop(scaled, target_size, crop_option)
        NoBox == <<0, 0, 0, 0>>
    IN  IF scaled[1] = 0 \/ scaled[2] = 0
        THEN [exc |-> "ValueError", scaled |-> scaled, box |-> NoBox, size |-> scaled]
        ELSE IF crop_option = <<>>
        THEN [exc |-> "none", scaled |-> scaled, box |-> NoBox, size |-> scaled]
        ELSE [exc |-> cropped.exc, scaled |-> scaled, box |-> cropped.box,
              size |-> cropped.size]

\* The values of a variant's "crop" option: absent (None), True, or a
\* directive string.
CropNone == [kind |-> "None", text |-> <<>>]
CropTrue == [kind |-> "True", text |-> <<>>]
CropStr(text) == [kind |-> "str", text |-> text]

\* Python's truth value of a "crop" option.
Truthy(v) == v.kind = "True" \/ (v.kind = "str" /\ v.text # <<>>)

\* create_and_store_thumb (lines 139-169) on an image of the given size:
\* thumb_options holds size (tuple: whether it is a tuple), crop, and
\* upscale (<<>> when absent).  stored is the size of the image handed to
\* image.save and storage.save.
create_and_store_thumb(size, thumb_options) ==
    LET target == thumb_options.size
        upscale == IF thumb_options.upscale = <<>> THEN TRUE
                   ELSE thumb_options.upscale[1]
        crop_option == IF Truthy(thumb_options.crop) THEN StrCenter ELSE <<>>
        image == create_thumbnail(size, target.xy, crop_option, upscale)
    IN  IF ~target.tuple
        THEN [exc |-> "UploadedImageIsUnreadableError", crop_option |-> <<>>,
              scaled |-> size, box |-> <<0, 0, 0, 0>>, stored |-> <<0, 0>>]
        ELSE [exc |-> image.exc, crop_option |-> crop_option,
              scaled |-> image.scaled, box |-> image.box,
              stored |-> IF image.exc = "none" THEN image.size ELSE <<0, 0>>]

\* The sizes of the calls: every small size, and those of the documented
\* example (a 200x400 source, variants of 100x100 and 50x50).
SmallSizes == {<<w, h>> : w \in 1..MaxDim, h \in 1..MaxDim}
ImageSizes == SmallSizes \cup {<<200, 400>>}
TargetSizes == SmallSizes \cup {<<100, 100>>, <<50, 50>>}

\* The crop directives parse_crop is called with: the aliases on their own,
\* pairs of tokens, single percentages and pixels, and malformed ones.
AliasDirectives == {StrLeft, StrCenter, StrRight, StrTop, StrBottom}
CropDirectives ==
    AliasDirectives
        \cup {<<"l", "e", "f", "t", " ", "t", "o", "p">>, <<"r", "i", "g", "h", "t", " ", "b", "o", "t", "t", "o", "m">>, <<"c", "e", "n", "t", "e", "r", " ", "c", "e", "n", "t", "e", "r">>,
              <<"1", "0", "%", " ", "9", "0", "%">>, <<"1", "5", "0", "%", " ", "2", "p", "x">>, <<"1", "p", "x", " ", "0", "p", "x">>, <<"3", "0", "%">>, <<"2", "p", "x">>}
        \cup {<<"t", "o", "p", " ", "l", "e", "f", "t">>, <<"m", "i", "d", "d", "l", "e">>, <<"l", "e", "f", "t", " ", " ", "t", "o", "p">>, <<"0", "%", " ", "2", "0", "%", " ", "5", "%">>, <<>>}

\* The "crop" options a variant is declared with.
CropOptions == {CropNone, CropTrue, CropStr(StrCenter), CropStr(StrTop),
                CropStr(<<"r", "i", "g", "h", "t", " ", "b", "o", "t", "t", "o", "m">>)}

\* The thumb_options of a variant; the last has a size that is no tuple.
ThumbOptions ==
    {[size |-> [tuple |-> TRUE, xy |-> t], crop |-> c, upscale |-> u] :
        t \in TargetSizes, c \in CropOptions, u \in {<<>>, <<TRUE>>, <<FALSE>>}}
        \cup {[size |-> [tuple |-> FALSE, xy |-> <<50, 50>>], crop |-> CropNone,
               upscale |-> <<>>]}

\* The names of originals, thumb names and format overrides (<<>>: none) of
\* the _calc_thumb_filename calls.
FileNames == {<<"a", "/", "b", "/", "p", "h", "o", "t", "o", ".", "p", "n", "g">>, <<"p", "h", "o", "t", "o", ".", "p", "n", "g">>, <<"a", "/", "x", ".", "t", "a", "r", ".", "g", "z">>, <<"p", "h", "o", "t", "o">>,
              <<"a", "/", "b", "/", "p", "h", "o", "t", "o">>, <<"a", ".", "b", "/", "p", "h", "o", "t", "o">>, <<".", "p", "n", "g">>}
FileThumbNames == {<<"t", "h", "u", "m", "b">>, <<"m">>}
FormatOverrides == {<<>>, <<"j", "p", "g">>, <<"J", "P", "E", "G">>, <<"P", "N", "G">>}

ParseCropCalls ==
    {[fn |-> "parse_crop", crop_option |-> d, xy_image |-> i, xy_window |-> w,
      done |-> FALSE, exc |-> "none", ret |-> <<0, 0>>] :
        d \in CropDirectives, i \in SmallSizes, w \in SmallSizes}
ScaleCalls ==
    {[fn |-> "scale", size |-> i, target_size |-> t, crop_option |-> c,
      upscale |-> u, done |-> FALSE, ret |-> <<0, 0>>] :
        i \in ImageSizes, t \in TargetSizes, c \in {<<>>, StrCenter},
        u \in BOOLEAN}
ThumbCalls ==
    {[fn |-> "create_and_store_thumb", size |-> i, thumb_options |-> o,
      done |-> FALSE, ret |-> <<>>] :
        i \in ImageSizes, o \in ThumbOptions}
FilenameCalls ==
    {[fn |-> "_calc_thumb_filename", name |-> n, thumb_name |-> t,
      thumbnail_format |-> f, done |-> FALSE, ret |-> <<>>] :
        n \in FileNames, t \in FileThumbNames, f \in FormatOverrides}

\* A call is pending.
Pending(fn) == fcall.fn = fn /\ ~fcall.done

CallParseCrop ==
    /\ Pending("parse_crop")
    /\ LET r == parse_crop(fcall.crop_option, fcall.xy_image, fcall.xy_window)
       IN  fcall' = [fcall EXCEPT !.done = TRUE, !.exc = r.exc, !.ret = r.ret]
    /\ UNCHANGED <<geom, storageVars, commandVars, fileVars, urlVars>>

CallScale ==
    /\ Pending("scale")
    /\ fcall' = [fcall EXCEPT !.done = TRUE,
                    !.ret = scale(fcall.size, fcall.target_size,
                                  fcall.crop_option, fcall.upscale)]
    /\ UNCHANGED <<geom, storageVars, commandVars, fileVars, urlVars>>

CallCreateAndStoreThumb ==
    /\ Pending("create_and_store_thumb")
    /\ fcall' = [fcall EXCEPT !.done = TRUE,
                    !.ret = create_and_store_thumb(fcall.size, fcall.thumb_options)]
    /\ UNCHANGED <<geom, storageVars, commandVars, fileVars, urlVars>>

CallCalcThumbFilename ==
    /\ Pending("_calc_thumb_filename")
    /\ fcall' = [fcall EXCEPT !.done = TRUE,
                    !.ret = calc_thumb_filename_fmt(fcall.name, fcall.thumb_name,
                                                    fcall.thumbnail_format)]
    /\ UNCHANGED <<geom, storageVars, commandVars, fileVars, urlVars>>

NextFunctions ==
    \/ CallParseCrop
    \/ CallScale
    \/ CallCreateAndStoreThumb
    \/ CallCalcThumbFilename

InitFunctions ==
    /\ fcall \in ParseCropCalls \cup ScaleCalls \cup ThumbCalls \cup FilenameCalls
    /\ geom = <<>>
    /\ storage = {}
    /\ content = [n \in Names |-> "image"]
    /\ saveFault = NoFault
    /\ deleteFault = NoFault
    /\ CommandIdle /\ FileIdle /\ UrlIdle

SpecFunctions == InitFunctions /\ [][NextFunctions]_vars

(***************************************************************************)
(* Properties of the batch regeneration command.                           *)
(***************************************************************************)
\* The runs so far: the finished ones, then the one under way.
RunsSoFar == IF pc = "iterating" THEN Append(log, ThisRun("running")) ELSE log

\* Run r follows a finished run, and neither was forced.
SecondUnforced(r) ==
    /\ r \in 2..Len(RunsSoFar)
    /\ RunsSoFar[r - 1].end = "done"
    /\ ~RunsSoFar[r - 1].force
    /\ ~RunsSoFar[r].force

\* C1 as stated: when the command is run twice in a row without force on an
\* unchanged dataset and storage, the second run classifies every item
\* SKIPPED_EXISTS.
C1_AllSkippedExists ==
    \A r \in 1..Len(RunsSoFar) :
        SecondUnforced(r) =>
            \A i \in DOMAIN RunsSoFar[r].classes :
                RunsSoFar[r].classes[i] = "SKIPPED_EXISTS"

\* The classifications counted under "Skipped (thumbnails exist)".
CountedAsExisting == {"SKIPPED_EXISTS", "SKIPPED_ALREADY_PROCESSED"}

\* What the second of two unforced runs may print (c2) for an item the first
\* run classified c1.
SecondClassOk(c1, c2) ==
    /\ c2 # "PROCESSED"
    /\ c1 = "SKIPPED_NO_FILE" => c2 = "SKIPPED_NO_FILE"
    /\ c1 \in CountedAsExisting \cup {"PROCESSED"} => c2 \in CountedAsExisting

\* C1 as amended: in the second of two unforced runs in a row no item is
\* PROCESSED; every item the first run classified PROCESSED, SKIPPED_EXISTS
\* or already processed is classified SKIPPED_EXISTS or, its basename being
\* in the ledger, already processed (both counted as "thumbnails exist");
\* an item without a file is SKIPPED_NO_FILE again.
C1_SecondRunRepeats ==
    \A r \in 1..Len(RunsSoFar) :
        SecondUnforced(r) =>
            \A i \in DOMAIN RunsSoFar[r].classes :
                SecondClassOk(RunsSoFar[r - 1].classes[i], RunsSoFar[r].classes[i])

\* C1's case: a second unforced run is over, and it skipped as existing an
\* item that the first run processed.
C1_Witness ==
    /\ Len(log) = 2
    /\ SecondUnforced(2)
    /\ log[2].end = "done"
    /\ \E i \in DOMAIN log[2].classes :
          /\ log[1].classes[i] = "PROCESSED"
          /\ log[2].classes[i] = "SKIPPED_EXISTS"

\* The item the loop is at has a file, a basename that is not in the ledger,
\* and a source that can be read and decoded.
ForceCase ==
    /\ Fresh
    /\ force_regen
    /\ CurFile \in storage
    /\ content[CurFile] = "image"

\* The step classifies the item PROCESSED and invokes the pipeline for it.
StepProcesses ==
    /\ classes' = Append(classes, "PROCESSED")
    /\ \E k \in DOMAIN io' :
          /\ io'[k].item = counter
          /\ io'[k].op = "generate_thumbs"
          /\ io'[k].file = CurFile

SavesAccepted(file) ==
    \A i \in 1..Len(thumbs) :
        SaveOutcome(calc_thumb_filename(file, thumbs[i].name)) = "none"

OnlyTolerated == saveFault = NoFault

\* C3: when the only failures are source-read failures and unreadable
\* images, the run never aborts, each step of the loop visits the next item
\* and classifies it once, and the run reaches DONE with the summary of all
\* the items.
C3_RunCompletes ==
    /\ [](OnlyTolerated => pc # "aborted")
    /\ [][OnlyTolerated /\ AtItem =>
            /\ counter' = counter + 1
            /\ Len(classes') = Len(classes) + 1
            /\ pc' = "iterating"]_vars
    /\ (OnlyTolerated /\ pc = "iterating") ~>
            (/\ pc = "done"
             /\ Len(classes) = Len(instances)
             /\ summary.total = Len(instances))

\* C3's case: a run is over that met an unreadable source and an undecodable
\* image.
C3_Witness ==
    /\ pc = "done"
    /\ OnlyTolerated
    /\ \E i, j \in DOMAIN classes :
          /\ classes[i] = "ERROR_MISSING_SOURCE"
          /\ classes[j] = "ERROR_CORRUPT_IMAGE"

\* C9 as stated: in a run without force, a variant that exists in storage
\* when its item is reached is not saved again by that run.
C9_OnlyMissingSaved ==
    ~force_regen =>
        \A k \in DOMAIN io : io[k].op = "save" => ~io[k].existed


(***************************************************************************)
(* Properties of the field file's operations.                              *)
(***************************************************************************)
\* The calls that ran the pipeline on decodable bytes and saw a variant fail.
VariantFailed(o) ==
    /\ o.op \in {"save", "generate_thumbs"}
    /\ o.bytes = "image"
    /\ o.raised # "none"

\* C4 as stated: when generating or storing a variant fails, every later
\* variant of field.thumbs is still attempted, and the failure reaches the
\* caller.
C4_VariantsIndependent ==
    \A k \in DOMAIN ops :
        VariantFailed(ops[k]) =>
            /\ ops[k].attempted = Len(thumbs)
            /\ ops[k].exc # "none"

\* The error that tells the caller of op that the image is unreadable: save
\* converts to UploadedImageIsUnreadableError, generate_thumbs raises PIL's
\* "cannot identify image file" IOError.
UnreadableErrorOf(op) ==
    IF op = "save" THEN "UploadedImageIsUnreadableError" ELSE "IOError"

\* C5 as stated: undecodable bytes fed through the pipeline yield the
\* unreadable-image error to the caller, and no thumbnail is stored.
C5_CorruptYieldsUnreadable ==
    \A k \in DOMAIN ops :
        (ops[k].op \in {"save", "generate_thumbs"} /\ ops[k].bytes = "garbage") =>
            /\ ops[k].exc = UnreadableErrorOf(ops[k].op)
            /\ ops[k].saves = <<>>

\* C8 as stated: delete swallows a failing thumbnail deletion, still requests
\* the deletion of every configured variant, and raises nothing from the
\* thumbnails to its caller.
C8_DeleteBestEffort ==
    \A k \in DOMAIN ops :
        ops[k].op = "delete" =>
            /\ ops[k].exc = "none"
            /\ \A f \in ThumbFilesOf(ops[k].name) : f \in Range(ops[k].deletes)


(***************************************************************************)
(* Properties of generate_url.                                             *)
(***************************************************************************)
\* Calls k - 1 and k have identical arguments, ask for the cache, and no
\* entry has expired between them.
SameCallLive(k) ==
    /\ k \in 2..Len(urlcalls)
    /\ urlcalls[k].name = urlcalls[k - 1].name
    /\ urlcalls[k].thumb_name = urlcalls[k - 1].thumb_name
    /\ urlcalls[k].ssl_mode = urlcalls[k - 1].ssl_mode
    /\ urlcalls[k].check_cache = urlcalls[k - 1].check_cache
    /\ urlcalls[k].cache_bust = urlcalls[k - 1].cache_bust
    /\ urlcalls[k].check_cache
    /\ ~urlcalls[k].evicted

\* C6 as stated: of two calls with identical arguments and a live cache, both
\* return the same string and the second makes no call to the storage URL
\* resolver.
C6_SecondCallNoResolver ==
    \A k \in 1..Len(urlcalls) :
        SameCallLive(k) =>
            /\ urlcalls[k].ret = urlcalls[k - 1].ret
            /\ urlcalls[k].resolver = 0

\* C7 as stated: a call served with the cache enabled returns the URL the
\* same call computes on a cold cache.
C7_CacheIsOptimization ==
    \A k \in DOMAIN urlcalls :
        urlcalls[k].check_cache =>
            urlcalls[k].ret = ComputeUrl(urlcalls[k].name, urlcalls[k].thumb_name,
                                         urlcalls[k].ssl_mode, urlcalls[k].cache_bust)


\* Call j computed a URL and stored it in the cache.
Stores(j) == urlcalls[j].check_cache /\ ~urlcalls[j].hit

\* The cache key of call k.
KeyOf(k) == CacheKey(urlcalls[k].name, urlcalls[k].thumb_name, urlcalls[k].ssl_mode)

\* The call whose stored value the hit of call k returned: the last one
\* before k that stored under k's key.
StorerOf(k) ==
    CHOOSE j \in 1..(k - 1) :
        /\ Stores(j)
        /\ KeyOf(j) = KeyOf(k)
        /\ \A i \in (j + 1)..(k - 1) : ~(Stores(i) /\ KeyOf(i) = KeyOf(k))

\* C20 as stated: cache entries are keyed by the triple (original URL,
\* thumb name, ssl_mode): the value a call stored is returned as a hit only
\* to calls with the same triple, so SSL and non-SSL URLs, and URLs of
\* different thumb names, never share an entry.
C20_KeyedByTriple ==
    \A k \in DOMAIN urlcalls :
        urlcalls[k].hit =>
            /\ urlcalls[StorerOf(k)].name = urlcalls[k].name
            /\ urlcalls[StorerOf(k)].thumb_name = urlcalls[k].thumb_name
            /\ urlcalls[StorerOf(k)].ssl_mode = urlcalls[k].ssl_mode

(***************************************************************************)
(* Properties of the geometry.                                             *)
(***************************************************************************)
\* round(s / 2), halves rounded up.
RoundHalf(s) == (s + 1) \div 2

\* C10: for a percentage token p in [0, 100] and a slack s >= 0,
\* get_cropping_offset returns an integer in [0, s], and for p = 50 the
\* result is within 1 of round(s / 2).
C10_OffsetInSlack ==
    (geom.done /\ geom.p \in 0..100 /\ geom.epsilon >= 0) =>
        /\ geom.exc = "none"
        /\ geom.ret \in 0..geom.epsilon
        /\ geom.p = 50 => (geom.ret - RoundHalf(geom.epsilon)) \in -1..1

\* C10's case: the offset of "50%" in an odd slack has been computed, and is
\* the slack's half rounded down.
C10_Witness ==
    /\ geom.done
    /\ geom.p = 50
    /\ geom.epsilon = 7
    /\ geom.ret = 3

(***************************************************************************)
(* Properties of scaling, cropping and thumbnail filenames.                *)
(***************************************************************************)
\* A create_and_store_thumb call that stored an artifact.
Stored == fcall.fn = "create_and_store_thumb" /\ fcall.done /\ fcall.ret.exc = "none"

\* C11: the stored artifact's dimensions never exceed the requested width
\* and height when the variant has no crop, and are exactly the requested
\* (width, height) when it has one; a 200x400 source gives (50, 100) for
\* (100, 100, no crop) and (50, 50) for (50, 50, crop = center).
C11_StoredDimensions ==
    Stored =>
        LET o == fcall.thumb_options
            requested == o.size.xy
            stored == fcall.ret.stored
        IN  /\ ~Truthy(o.crop) =>
                  stored[1] =< requested[1] /\ stored[2] =< requested[2]
            /\ Truthy(o.crop) => stored = requested
            /\ (fcall.size = <<200, 400>> /\ requested = <<100, 100>> /\ o.crop = CropNone)
                  => stored = <<50, 100>>
            /\ (fcall.size = <<200, 400>> /\ requested = <<50, 50>>
                    /\ o.crop = CropStr(StrCenter))
                  => stored = <<50, 50>>

\* C11's case: the 50x50 centre-cropped variant of the 200x400 source has
\* been stored, cut out of the 50x100 scaled image.
C11_Witness ==
    /\ Stored
    /\ fcall.size = <<200, 400>>
    /\ fcall.thumb_options.size.xy = <<50, 50>>
    /\ fcall.thumb_options.crop = CropStr(StrCenter)
    /\ fcall.ret.scaled = <<50, 100>>
    /\ fcall.ret.stored = <<50, 50>>

\* n / d >= 0 rounded to the nearest integer, halves away from zero.
RoundHalfAway(n, d) == (2 * n + d) \div (2 * d)

\* C12 as stated: scale uses the larger per-axis factor when cropping is
\* requested and the smaller otherwise; if that factor is >= 1 and upscaling
\* is not allowed the size is returned unchanged, otherwise each side is its
\* product with the factor rounded to the nearest integer, ties away from
\* zero.
C12_ScaleRounding ==
    (fcall.fn = "scale" /\ fcall.done) =>
        LET x == fcall.size[1]
            y == fcall.size[2]
            w == fcall.target_size[1]
            h == fcall.target_size[2]
            x_larger == w * y >= h * x
            use_x == IF fcall.crop_option # <<>> THEN x_larger ELSE ~x_larger
            num == IF use_x THEN w ELSE h
            den == IF use_x THEN x ELSE y
        IN  IF num >= den /\ ~fcall.upscale
            THEN fcall.ret = fcall.size
            ELSE fcall.ret = <<RoundHalfAway(x * num, den), RoundHalfAway(y * num, den)>>

\* The percentage each alias stands for.
AliasPercent(a) ==
    CASE a = StrLeft -> 0
      [] a = StrCenter -> 50
      [] a = StrRight -> 100
      [] a = StrTop -> 0
      [] a = StrBottom -> 100

\* The offset of percentage p in the slack between an image side and a
\* window side.
PercentOffset(p, image_side, window_side) ==
    get_cropping_offset(Numeral(p) \o <<"%">>, image_side - window_side).ret

\* C13: for a crop directive of one token equal to a known alias,
\* parse_crop returns the offsets of that alias's percentage on its own
\* axis and of 50% on the other axis (an X alias on X, a Y alias on Y).
C13_SingleAlias ==
    (fcall.fn = "parse_crop" /\ fcall.done /\ fcall.crop_option \in AliasDirectives) =>
        LET a == fcall.crop_option
            i == fcall.xy_image
            w == fcall.xy_window
        IN  /\ fcall.exc = "none"
            /\ a \in {StrLeft, StrCenter, StrRight} =>
                  fcall.ret = <<PercentOffset(AliasPercent(a), i[1], w[1]),
                                PercentOffset(50, i[2], w[2])>>
            /\ a \in {StrTop, StrBottom} =>
                  fcall.ret = <<PercentOffset(50, i[1], w[1]),
                                PercentOffset(AliasPercent(a), i[2], w[2])>>

\* C13's case: "bottom" in a 6x6 image with a 2x2 window has given the
\* middle of the X slack and the whole of the Y slack.
C13_Witness ==
    /\ fcall.fn = "parse_crop"
    /\ fcall.done
    /\ fcall.crop_option = StrBottom
    /\ fcall.xy_image = <<6, 6>>
    /\ fcall.xy_window = <<2, 2>>
    /\ fcall.ret = <<2, 4>>

\* The directory component of a path: what precedes its basename.
Dirname(p) == SubSeq(p, 1, Len(p) - Len(Basename(p)))

\* A path with the extension of its basename stripped.
StripExtension(p) ==
    LET base == Basename(p)
        dot == RFind(base, ".")
    IN  Dirname(p) \o (IF dot = 0 THEN base ELSE SubSeq(base, 1, dot - 1))

\* C14 as stated: for every original filename, thumb name and resolved
\* format, _calc_thumb_filename returns the original with its extension
\* stripped plus "_<thumb name>.<format>", the directory component of the
\* original being preserved unchanged.
C14_FilenamePreservesDirectory ==
    (fcall.fn = "_calc_thumb_filename" /\ fcall.done) =>
        LET format == get_thumbnail_format(fcall.name, fcall.thumbnail_format)
        IN  /\ fcall.ret = StripExtension(fcall.name) \o <<"_">> \o fcall.thumb_name
                              \o <<".">> \o format
            /\ Dirname(fcall.ret) = Dirname(fcall.name)

\* C18 as stated: for a variant that carries a crop directive d, the scaled
\* image is cropped with the box [x, y, x + width, y + height] where (x, y)
\* is parse_crop(d, scaled size, variant size): the offsets are those of the
\* variant's own directive.
C18_OwnDirective ==
    (Stored /\ fcall.thumb_options.crop.kind = "str"
            /\ fcall.thumb_options.crop.text # <<>>) =>
        LET target == fcall.thumb_options.size.xy
            own == parse_crop(fcall.thumb_options.crop.text, fcall.ret.scaled, target)
        IN  /\ own.exc = "none"
            /\ fcall.ret.box = <<own.ret[1], own.ret[2],
                                 own.ret[1] + target[1], own.ret[2] + target[2]>>

\* A parse_crop call that returned offsets.
Parsed == fcall.fn = "parse_crop" /\ fcall.done /\ fcall.exc = "none"

CallsOf(i, op) == {k \in DOMAIN io : io[k].item = i /\ io[k].op = op}

\* C15 as stated: the run tolerates two per-item failures only, a source
\* that cannot be read and an image that cannot be decoded; an item is
\* classified as an error, and the run goes on, for no other failure (a
\* save that storage refuses inside the pipeline ends the run instead).
C15_OnlyTwoErrorClasses ==
    \A i \in DOMAIN classes :
        LET file == instances[i].file
        IN  /\ classes[i] = "ERROR_MISSING_SOURCE" =>
                  \E k \in CallsOf(i, "read") : ~io[k].existed
            /\ classes[i] = "ERROR_CORRUPT_IMAGE" => content[file] # "image"

\* The classes after which the ledger is marked.
Marking == {"SKIPPED_EXISTS", "PROCESSED"}

\* The items before i that have the basename of item i and marked the ledger.
MarkedBefore(i) ==
    {j \in 1..(i - 1) :
        /\ instances[j].file # NoFile
        /\ Basename(instances[j].file) = Basename(instances[i].file)
        /\ classes[j] \in Marking}

\* C16: within one run the ledger holds a basename only if an item of the
\* run with that basename was classified SKIPPED_EXISTS or PROCESSED; an
\* item whose basename is in the ledger is skipped with no existence check,
\* no read and no pipeline call; so at most one item per basename is
\* PROCESSED in a run.
C16_LedgerOncePerBasename ==
    /\ \A b \in regen_tracker :
          \E i \in DOMAIN classes :
              /\ instances[i].file # NoFile
              /\ Basename(instances[i].file) = b
              /\ classes[i] \in Marking
    /\ \A i \in DOMAIN classes :
          (instances[i].file # NoFile /\ MarkedBefore(i) # {}) =>
              /\ classes[i] = "SKIPPED_ALREADY_PROCESSED"
              /\ \A k \in DOMAIN io : io[k].item # i
    /\ \A i, j \in DOMAIN classes :
          (/\ classes[i] = "PROCESSED"
           /\ classes[j] = "PROCESSED"
           /\ Basename(instances[i].file) = Basename(instances[j].file)) => i = j

\* C16's case: a/x.png was processed, and b/x.png, whose thumbnails are not
\* in storage, was skipped for its basename with no call made.
C16_Witness ==
    /\ Len(classes) = 2
    /\ instances[1].file = NameAX
    /\ instances[2].file = NameBX
    /\ classes = <<"PROCESSED", "SKIPPED_ALREADY_PROCESSED">>
    /\ ThumbFilesOf(NameBX) \cap storage = {}
    /\ regen_tracker = {Basename(NameAX)}
    /\ \A k \in DOMAIN io : io[k].item = 1

\* C17: every visited item increments exactly one counter: after each
\* iteration processed + skipped (no file) + skipped (exists) + errors is
\* the number of items visited so far, and in the summary the sum is the
\* total number of items.
C17_CountersSum ==
    /\ processed_count + skipped_no_file + skipped_exists + error_count
          = Len(classes)
    /\ Len(classes) = counter - 1
    /\ pc = "done" =>
          /\ summary.total = Len(instances)
          /\ summary.processed + summary.no_file + summary.exists + summary.errors
                = summary.total
          /\ Len(classes) = summary.total

\* C17's case: a summary of two items, one processed and one skipped for
\* its basename, has been printed.
C17_Witness ==
    /\ pc = "done"
    /\ summary.total = 2
    /\ summary.processed = 1
    /\ summary.exists = 1
    /\ classes = <<"PROCESSED", "SKIPPED_ALREADY_PROCESSED">>

\* C21 as stated: after a run without force has completed with zero
\* errors, every instance that has a file has all of its configured
\* variants in storage, under the filenames computed from its own file name.
C21_AllVariantsPresent ==
    (pc = "done" /\ ~summary.force /\ summary.errors = 0) =>
        \A i \in DOMAIN instances :
            instances[i].file # NoFile =>
                ThumbFilesOf(instances[i].file) \subseteq storage

(***************************************************************************)
(* Properties of save's order of writes.                                   *)
(***************************************************************************)
\* The thumbnail filenames of name, in the order field.thumbs declares them.
DeclaredOrder(name) ==
    [i \in 1..Len(thumbs) |-> calc_thumb_filename(name, thumbs[i].name)]

\* The last call made on the field file is a save.
SaveJustMade == ops' # ops /\ ops'[Len(ops')].op = "save"

\* C22: save writes the original before any thumbnail and the thumbnails
\* in declared order; when generating the thumbnails then fails, the
\* original and the variants stored before the failure stay in storage: the
\* call removes nothing.
C22_OriginalFirstNoRollback ==
    /\ [](\A k \in DOMAIN ops :
            ops[k].op = "save" =>
                /\ ops[k].writes[1] = ops[k].name
                /\ Len(ops[k].writes) =< 1 + Len(thumbs)
                /\ \A i \in 2..Len(ops[k].writes) :
                      ops[k].writes[i] = DeclaredOrder(ops[k].name)[i - 1])
    /\ [][SaveJustMade =>
            /\ Range(ops'[Len(ops')].writes) \subseteq storage'
            /\ storage \subseteq storage']_vars

\* C22's case: a save of a/x.png into an empty storage has failed at the
\* second variant; the original and the first variant are in storage.
C22_Witness ==
    /\ Len(ops) = 1
    /\ ops[1].op = "save"
    /\ ops[1].name = NameAX
    /\ ops[1].exc # "none"
    /\ ops[1].writes = <<NameAX, DeclaredOrder(NameAX)[1]>>
    /\ storage = {NameAX, DeclaredOrder(NameAX)[1]}

=============================================================================
